---- MODULE Spec2Model ----
(***************************************************************************)
(* Model of the menu engine of fastapi_template/input_model.py:            *)
(* MenuEntry, SKIP_ENTRY, SingularMenuModel, MultiselectMenuModel and      *)
(* BuilderContext.                                                         *)
(*                                                                         *)
(* Encoding of Python values.  Every value stored in the Context is a      *)
(* string: an entry code ("pg", "sqla", ...), or one of the tokens PyNone, *)
(* PyTrue, PyFalse standing for None, True and False.  An Optional         *)
(* MenuEntry is a sequence of length 0 (None) or 1 (the entry); an         *)
(* Optional list of entries is a record [isNone, items].  Indexes are      *)
(* 1-based here and 0-based in the source; index 0 stands for the `None`   *)
(* a cancelled TerminalMenu.show() returns.                                *)
(***************************************************************************)
EXTENDS Integers, Sequences, FiniteSets, TLC

VARIABLES
    ctx,            \* BuilderContext.data: the mapping key -> value
    inserted,       \* the keys of ctx in the order the mapping iterates them
    terminalMenu,   \* TRUE iff `TerminalMenu is not None` (import succeeded)
    last,           \* observation of the last call: arguments, path, result
    calls,          \* number of direct calls made so far (bounded)
    seed,           \* the kwargs the Context was constructed with
    pos,            \* driver: index of the menu under consideration
    phase,          \* driver: "check", "asked", "done", "aborted" or "raised"
    log,            \* driver: one record per menu visited, in visiting order
    interp          \* the Python version the program runs on

vars == <<ctx, inserted, terminalMenu, last, calls, seed, pos, phase, log, interp>>

----------------------------------------------------------------------------
(* Bounds of the model *)

\* largest number of keyword arguments BuilderContext is constructed with
MaxSeed == 2
\* largest number of direct calls (need_ask / ask / after_ask) in one behaviour
MaxCalls == 2
\* largest number of accesses (attribute or mapping reads and writes, flag-name
\* reads) in one behaviour of the accessor specification
MaxAccess == 3

----------------------------------------------------------------------------
(* Python values *)

PyNone == "PyNone"
PyTrue == "PyTrue"
PyFalse == "PyFalse"
\* an object that is neither None nor a value a Context is given: a bound
\* method, the class, the backing mapping
PyObject == "PyObject"

\* bool(v) for the values a Context holds
Truthy(v) == v \notin {PyNone, PyFalse, ""}

----------------------------------------------------------------------------
(* MenuEntry and the skip sentinel *)

\* is_hidden predicates used by the menus below; PyNone is `is_hidden=None`.
\* "db_is_none" is  lambda ctx: ctx.dict().get("db") == "none"
\* "redis_on"   is  lambda ctx: ctx.dict().get("redis") is True
HiddenPredicates == {PyNone, "db_is_none", "redis_on"}

MenuEntry(code, cli_name, user_view, description, is_hidden, pydantic_v1) ==
    [code |-> code, cli_name |-> cli_name, user_view |-> user_view,
     description |-> description, is_hidden |-> is_hidden,
     additional_info |-> PyNone, pydantic_v1 |-> pydantic_v1]

SKIP_ENTRY == MenuEntry("skip", PyNone, "skip", "skip", PyNone, FALSE)

\* the body shared by the three definitions of the property generated_name:
\* `if self.cli_name: return self.cli_name` / `return self.code`
GeneratedNameBody(entry) ==
    IF entry.cli_name \notin {PyNone, ""} THEN entry.cli_name ELSE entry.code

\* the parameters of the definition of generated_name that the class keeps:
\* the last of the three, `def generated_name(self, param1, param2)`
GeneratedNameParams == <<"self", "param1", "param2">>

\* reading entry.generated_name: the property calls its getter with the
\* entry alone, which raises TypeError when the getter wants more arguments
GeneratedName(entry) ==
    IF Len(GeneratedNameParams) = Len(<<"self">>)
    THEN GeneratedNameBody(entry)
    ELSE "TypeError"

\* entry.is_hidden(context) for the predicates above
EvalHidden(pred, c) ==
    CASE pred = "db_is_none" -> "db" \in DOMAIN c /\ c["db"] = "none"
      [] pred = "redis_on"   -> "redis" \in DOMAIN c /\ c["redis"] = PyTrue
      [] OTHER               -> FALSE

\* the filter of both ask methods: `is_hidden is None` or `not is_hidden(context)`
IsVisible(entry, c) ==
    IF entry.is_hidden = PyNone
    THEN TRUE
    ELSE ~EvalHidden(entry.is_hidden, c)

----------------------------------------------------------------------------
(* The menus the engine is exercised with *)

Pg       == MenuEntry("pg", PyNone, "PostgreSQL", "a database", PyNone, FALSE)
NoDb     == MenuEntry("none", PyNone, "No database", "no database", "redis_on", FALSE)
\* a menu entry of its own whose fields all equal those of SKIP_ENTRY
SkipLike == MenuEntry("skip", PyNone, "skip", "skip", PyNone, FALSE)
Sqla     == MenuEntry("sqla", "sa", "SQLAlchemy", "an orm", "db_is_none", FALSE)
Tortoise == MenuEntry("tortoise", PyNone, "Tortoise", "an orm", "db_is_none", TRUE)
Redis    == MenuEntry("redis", PyNone, "Redis", "a cache", PyNone, FALSE)
Rmq      == MenuEntry("rmq", "rabbit", "RabbitMQ", "a broker", "db_is_none", TRUE)
D1       == MenuEntry("d1", PyNone, "D1", "an option", PyNone, FALSE)
H1       == MenuEntry("h1", PyNone, "H1", "an option", PyNone, FALSE)
\* an entry whose code is the name of a method the Context inherits
KeysView == MenuEntry("keys", PyNone, "Keys", "a view", PyNone, FALSE)

SingularMenuModel(title, code, entries, before_ask_fun, after_ask_fun) ==
    [kind |-> "single", title |-> title, code |-> code, entries |-> entries,
     before_ask |-> before_ask_fun, after_ask_fun |-> after_ask_fun]

MultiselectMenuModel(title, entries, before_ask) ==
    [kind |-> "multi", title |-> title, code |-> PyNone, entries |-> entries,
     before_ask |-> before_ask, after_ask_fun |-> PyNone]

\* before_ask / after_ask_fun are PyNone (not registered) or the name of a hook
DbMenu       == SingularMenuModel("Database", "db", <<Pg, NoDb, SkipLike>>, PyNone, "record_db_info")
OrmMenu      == SingularMenuModel("ORM", "orm", <<Sqla, Tortoise>>, "any_entry", PyNone)
FeaturesMenu == MultiselectMenuModel("Features", <<Redis, Rmq>>, "any_list")
\* a menu whose code is the name of the backing field of the Context
DataMenu     == SingularMenuModel("Data", "data", <<D1>>, PyNone, PyNone)
\* a menu whose code is the name of an attribute of the Context that is None
HashMenu     == SingularMenuModel("Hash", "__hash__", <<H1>>, PyNone, PyNone)
ViewsMenu    == MultiselectMenuModel("Views", <<KeysView>>, PyNone)

Menus == <<DbMenu, OrmMenu, FeaturesMenu, DataMenu, HashMenu, ViewsMenu>>

MenuIds == 1..Len(Menus)

Range(s) == {s[i] : i \in 1..Len(s)}

----------------------------------------------------------------------------
(* BuilderContext *)

\* the keys a Context is constructed with
SeedKeys == {"db", "orm", "redis", "rmq", "data", "pydanticv1", "db_info"}

\* the keys the menus and their hooks read and write
Keys == SeedKeys \cup {"__hash__", "keys"}

\* the names read and written through the accessors: keys of the menus, the
\* backing field, an inherited method, an attribute that is None and a name
\* that normal attribute lookup finds on some Python versions only
AccessKeys == {"db", "redis", "data", "keys", "__hash__", "__getstate__"}

\* the keys in the order keyword arguments are passed to BuilderContext()
KeyList == <<"db", "orm", "redis", "rmq", "data", "pydanticv1", "db_info">>

\* the Python versions that differ in the names an object has: before 3.11,
\* 3.11 and 3.12, and from 3.13 on
Interpreters == {"3.10", "3.11", "3.13"}

\* names found on the object by normal attribute lookup whose value is None:
\* Mapping sets __reversed__ = None, a class that defines __eq__ without
\* __hash__ gets __hash__ = None, and __weakref__ is None while no weak
\* reference to the object exists
NoneAttrs == {"__hash__", "__reversed__", "__weakref__"}

\* names found by normal attribute lookup, on every Python version, whose
\* value is an object other than None: the instance attribute `data`, the
\* method `dict`, the methods inherited from collections.UserDict, and the
\* underscore names of the object, its class (its docstring included) and
\* its bases
ObjectAttrs ==
    {"data", "dict", "clear", "copy", "fromkeys", "get", "items", "keys",
     "pop", "popitem", "setdefault", "update", "values"}
    \cup
    {"_MutableMapping__marker", "_abc_impl", "__abstractmethods__",
     "__class__", "__class_getitem__", "__contains__", "__copy__",
     "__delattr__", "__delitem__", "__dict__", "__dir__", "__doc__", "__eq__",
     "__format__", "__ge__", "__getattr__", "__getattribute__",
     "__getitem__", "__gt__", "__init__",
     "__init_subclass__", "__ior__", "__iter__", "__le__", "__len__",
     "__lt__", "__module__", "__ne__", "__new__", "__or__", "__reduce__",
     "__reduce_ex__", "__repr__", "__ror__", "__setattr__",
     "__setitem__", "__sizeof__", "__slots__", "__str__",
     "__subclasshook__"}

\* names found by normal attribute lookup on some Python versions only:
\* object.__getstate__ exists from 3.11, and a class carries
\* __firstlineno__ and __static_attributes__ from 3.13
VersionAttrs(py) ==
    CASE py = "3.10" -> {}
      [] py = "3.11" -> {"__getstate__"}
      [] OTHER       -> {"__getstate__", "__firstlineno__", "__static_attributes__"}

\* object.__getattribute__(context, name) on Python version py: None or
\* another object when the name is found, "NotFound" when it is not and
\* __getattr__ is consulted
NormalLookup(name, py) ==
    IF name \in NoneAttrs
    THEN PyNone
    ELSE IF name \in ObjectAttrs \cup VersionAttrs(py)
    THEN PyObject
    ELSE "NotFound"

\* context.dict().get(key)
DictGet(c, key) == IF key \in DOMAIN c THEN c[key] ELSE PyNone

\* getattr(context, name, None) on Python version py
GetAttrOrNoneOn(c, name, py) ==
    IF NormalLookup(name, py) # "NotFound"
    THEN NormalLookup(name, py)
    ELSE IF name \in DOMAIN c THEN c[name] ELSE PyNone

\* getattr(context, name, None)
GetAttrOrNone(c, name) == GetAttrOrNoneOn(c, name, interp)

\* mutant: the attribute is stored on the object and not in the mapping
SetAttr_NotInMapping(c, name, value) == c

\* mutant: the mapping is replaced by one holding the new key alone
SetAttr_Replaces(c, name, value) == [k \in {name} |-> value]

\* setattr(context, name, value), i.e. context[name] = value
SetAttr(c, name, value) ==
    [k \in DOMAIN c \cup {name} |-> IF k = name THEN value ELSE c[k]]

\* mutant: a missing key reads as None
GetAttr_NoneIfMissing(c, name) ==
    IF NormalLookup(name, interp) # "NotFound"
    THEN NormalLookup(name, interp)
    ELSE IF name \in DOMAIN c THEN c[name] ELSE PyNone

\* context.<name> on Python version py: normal attribute lookup first, then
\* __getattr__, which turns the KeyError of the mapping into AttributeError
GetAttrOn(c, name, py) ==
    IF NormalLookup(name, py) # "NotFound"
    THEN NormalLookup(name, py)
    ELSE IF name \in DOMAIN c THEN c[name] ELSE "AttributeError"

\* context.<name>
GetAttr(c, name) == GetAttrOn(c, name, interp)

\* context.dict()[key]
DictItem(c, key) == IF key \in DOMAIN c THEN c[key] ELSE "KeyError"

\* context.dict()[key] = value: dict() returns the backing mapping itself
DictSet(c, key, value) ==
    [k \in DOMAIN c \cup {key} |-> IF k = key THEN value ELSE c[k]]

\* the mapping without key: `del self.data[key]`, as the inherited
\* pop, popitem and __delitem__ do
DictRemove(c, key) == [k \in DOMAIN c \ {key} |-> c[k]]

\* the inherited clear(): every key is removed
Clear(c) == [k \in {} |-> PyNone]

\* the receiver after the inherited copy(): UserDict.copy runs
\* `self.data = {}` and then `self.data = data`, and __setattr__ turns both
\* into writes of the key "data", which ends up holding the mapping itself
Copy(c) == SetAttr(SetAttr(c, "data", ""), "data", PyObject)

\* the receiver after `context |= {key: value}`: UserDict.__ior__ runs
\* `self.data |= other`, which updates the mapping in place and then assigns
\* it to self.data, i.e. to the key "data"
Ior(c, key, value) == SetAttr(DictSet(c, key, value), "data", PyObject)

\* the iteration order of the mapping c2 reached from a mapping whose order
\* was `order` by writing the keys of `written` in turn: a key that stays
\* keeps its place, a new key goes to the end
RECURSIVE AppendNew(_, _)
AppendNew(order, written) ==
    IF written = <<>>
    THEN order
    ELSE AppendNew(IF Head(written) \in Range(order)
                   THEN order
                   ELSE Append(order, Head(written)),
                   Tail(written))

KeyOrder(order, c2, written) ==
    AppendNew(SelectSeq(order, LAMBDA k : k \in DOMAIN c2),
              SelectSeq(written, LAMBDA k : k \in DOMAIN c2))

----------------------------------------------------------------------------
(* SingularMenuModel *)

Max(S) == CHOOSE x \in S : \A y \in S : y <= x

\* need_ask: `getattr(context, self.code, None) is None`
SingularNeedAsk(menu, c) == GetAttrOrNone(c, menu.code) = PyNone

\* what before_ask_fun(context) may return: None when no hook is registered,
\* otherwise None, the skip sentinel or any entry of the menu
SingularHookResults(menu) ==
    IF menu.before_ask = PyNone
    THEN {<<>>}
    ELSE {<<>>, <<SKIP_ENTRY>>} \cup {<<e>> : e \in Range(menu.entries)}

\* `if ctx_value: for entry in self.entries: if entry.code == ctx_value:
\*  chosen_entry = entry`: the last matching entry replaces chosen_entry
CtxLookup(entries, ctx_value, chosen) ==
    LET hits == {i \in 1..Len(entries) : entries[i].code = ctx_value}
    IN  IF Truthy(ctx_value) /\ hits # {}
        THEN <<entries[Max(hits)]>>
        ELSE chosen

\* mutant: the hidden entries are not filtered out
AvailableEntries_NoFilter(menu, c) == menu.entries

\* available_entries: the entries that are not hidden, in declared order
AvailableEntries(menu, c) == SelectSeq(menu.entries, LAMBDA e : IsVisible(e, c))

\* mutant: the lookup sees only the entries that are not hidden
LookupEntries_Available(menu, c) == AvailableEntries(menu, c)

\* the entries the lookup runs over: `for entry in self.entries`
LookupEntries(menu, c) == menu.entries

\* the answer of a call in which no answer is read from the user
NoAnswer == -1

\* the answers the user can give to a single-select prompt over n choices:
\* 0 is cancel (show() returns None, run() returns None), i picks choice i.
\* radiolist_dialog over no choice is never run, so it reads no answer; of
\* TerminalMenu over no entry the one answer considered is None.
SingularAnswers(n, tm) == IF ~tm /\ n = 0 THEN {NoAnswer} ELSE 0..n

\* TerminalMenu branch: `idx = menu.show(); if idx is None: return None;
\* chosen_entry = available_entries[idx]`
TerminalPick(available, idx) ==
    IF idx = 0
    THEN [returnsNone |-> TRUE, raises |-> FALSE, chosen |-> <<>>]
    ELSE [returnsNone |-> FALSE, raises |-> FALSE, chosen |-> <<available[idx]>>]

\* the exception that leaves radiolist_dialog / checkboxlist_dialog called
\* with `values=[]`: prompt_toolkit asserts `len(values) > 0` when the dialog
\* is built and then reads `values[0]`, so the call raises AssertionError,
\* or IndexError when Python runs with assertions stripped (python -O)
DialogErrors == {"AssertionError", "IndexError"}

DialogError(optimized) == IF optimized THEN "IndexError" ELSE "AssertionError"

\* fallback branch: `chosen_entry = radiolist_dialog(...).run() or SKIP_ENTRY`;
\* over no choice the call raises before run() is reached
DialogPick(available, idx) ==
    IF available = <<>>
    THEN [returnsNone |-> FALSE, raises |-> TRUE, chosen |-> <<>>]
    ELSE [returnsNone |-> FALSE, raises |-> FALSE,
          chosen |-> IF idx = 0 THEN <<SKIP_ENTRY>> ELSE <<available[idx]>>]

\* `if chosen_entry == SKIP_ENTRY`: pydantic models compare field by field
IsSkip(entry) == entry = SKIP_ENTRY

\* mutant: the chosen code is never written
SingularRecord_NoWrite(c, menu, entry) ==
    IF entry.pydantic_v1 THEN SetAttr(c, "pydanticv1", PyTrue) ELSE c

\* mutant: the flag is assigned from the entry, `context.pydanticv1 =
\* chosen_entry.pydantic_v1`, whatever it held
SingularRecord_CopiesFlag(c, menu, entry) ==
    SetAttr(SetAttr(c, menu.code, entry.code), "pydanticv1",
            IF entry.pydantic_v1 THEN PyTrue ELSE PyFalse)

\* mutant: the entry's own key is set as well, as the multi-select ask does
SingularRecord_AlsoEntryKey(c, menu, entry) ==
    LET c1 == SetAttr(SetAttr(c, menu.code, entry.code), entry.code, PyTrue)
    IN  IF entry.pydantic_v1 THEN SetAttr(c1, "pydanticv1", PyTrue) ELSE c1

\* `setattr(context, self.code, chosen_entry.code)` and the pydanticv1 flag
SingularRecord(c, menu, entry) ==
    LET c1 == SetAttr(c, menu.code, entry.code)
    IN  IF entry.pydantic_v1 THEN SetAttr(c1, "pydanticv1", PyTrue) ELSE c1

\* mutant: the skip path returns the Context, as the multi-select ask does
SingularSkipReturn_Context == "context"

\* what a bare `return` hands back on the skip path
SingularSkipReturn == "None"

\* SingularMenuModel.ask(context) with the hook returning hookRes and, when a
\* prompt is shown, the user answering idx, on a Python that runs with
\* assertions stripped iff `optimized`.  The result records the Context after
\* the call, the value returned and the path taken.
AskSingular(menu, c, tm, optimized, hookRes, idx) ==
    LET chosen0   == IF menu.before_ask # PyNone THEN hookRes ELSE <<>>
        ctx_value == DictGet(c, menu.code)
        chosen1   == CtxLookup(LookupEntries(menu, c), ctx_value, chosen0)
        prompted  == chosen1 = <<>>
        available == AvailableEntries(menu, c)
        pick      == IF tm THEN TerminalPick(available, idx)
                           ELSE DialogPick(available, idx)
        chosen2   == IF prompted THEN pick.chosen ELSE chosen1
        base      == [hook |-> chosen0, hookNone |-> chosen0 = <<>>,
                      prompted |-> prompted,
                      presented |-> IF prompted THEN available ELSE <<>>,
                      cancelled |-> prompted /\ idx = 0,
                      picked |-> IF prompted /\ idx > 0 THEN <<idx>> ELSE <<>>]
    IN  IF prompted /\ pick.raises
        THEN base @@ [ctx |-> c, ret |-> DialogError(optimized), chosen |-> <<>>,
                      resolved |-> FALSE]
        ELSE IF prompted /\ pick.returnsNone
        THEN base @@ [ctx |-> c, ret |-> "None", chosen |-> <<>>, resolved |-> FALSE]
        ELSE IF IsSkip(chosen2[1])
        THEN base @@ [ctx |-> c, ret |-> SingularSkipReturn,
                      chosen |-> chosen2, resolved |-> TRUE]
        ELSE base @@ [ctx |-> SingularRecord(c, menu, chosen2[1]), ret |-> "context",
                      chosen |-> chosen2, resolved |-> TRUE]

----------------------------------------------------------------------------
(* MultiselectMenuModel *)

NoneList == [isNone |-> TRUE, items |-> <<>>]
SomeList(s) == [isNone |-> FALSE, items |-> s]

\* sequences without repetition over 1..n, the empty one included
DistinctSeqs(n) ==
    {s \in UNION {[1..k -> 1..n] : k \in 0..n} :
        \A i, j \in DOMAIN s : i # j => s[i] # s[j]}

Ascending(s) == \A i, j \in DOMAIN s : i < j => s[i] < s[j]

\* need_ask: some entry has `getattr(context, entry.code, None) is None`
MultiNeedAsk(menu, c) ==
    \E i \in 1..Len(menu.entries) : GetAttrOrNone(c, menu.entries[i].code) = PyNone

\* what before_ask(context) may return: None, or a list of entries
MultiHookResults(menu) ==
    IF menu.before_ask = PyNone
    THEN {NoneList}
    ELSE {NoneList, SomeList(<<SKIP_ENTRY>>)}
         \cup {SomeList([i \in DOMAIN s |-> menu.entries[s[i]]]) :
                 s \in {t \in DistinctSeqs(Len(menu.entries)) : Ascending(t)}}

\* mutant: only an entry whose key is absent or None counts as unknown
UnknownEntries_NoneOnly(menu, c) ==
    SelectSeq(menu.entries, LAMBDA e : DictGet(c, e.code) = PyNone)

\* unknown_entries: entries with `not context.dict().get(entry.code)`
UnknownEntries(menu, c) ==
    SelectSeq(menu.entries, LAMBDA e : ~Truthy(DictGet(c, e.code)))

\* visible_entries: the unknown entries that are not hidden
VisibleEntries(unknown, c) == SelectSeq(unknown, LAMBDA e : IsVisible(e, c))

\* the answers the user can give to a multi-select prompt over n choices.
\* TerminalMenu.show(): None, or a non-empty ascending tuple of indexes.
\* checkboxlist_dialog.run(): None, or the ticked values in ticking order;
\* over no choice the dialog is never run, so it reads no answer.
MultiAnswers(n, tm) ==
    IF ~tm /\ n = 0
    THEN {SomeList(<<NoAnswer>>)}
    ELSE {NoneList} \cup
         {SomeList(s) : s \in {t \in DistinctSeqs(n) :
                                 IF tm THEN t # <<>> /\ Ascending(t) ELSE TRUE}}

\* TerminalMenu branch: `if idxs is None: return None`, else the entries at idxs
TerminalMultiPick(visible, answer) ==
    IF answer.isNone
    THEN [returnsNone |-> TRUE, raises |-> FALSE, chosen |-> <<>>]
    ELSE [returnsNone |-> FALSE, raises |-> FALSE,
          chosen |-> [i \in DOMAIN answer.items |-> visible[answer.items[i]]]]

\* fallback branch: `checkboxlist_dialog(...).run() or [SKIP_ENTRY]`; over
\* no choice the call raises before run() is reached
DialogMultiPick(visible, answer) ==
    IF visible = <<>>
    THEN [returnsNone |-> FALSE, raises |-> TRUE, chosen |-> <<>>]
    ELSE LET run == [i \in DOMAIN answer.items |-> visible[answer.items[i]]]
         IN  [returnsNone |-> FALSE, raises |-> FALSE,
              chosen |-> IF answer.isNone \/ run = <<>> THEN <<SKIP_ENTRY>> ELSE run]

\* `for entry in chosen_entries: setattr(context, entry.code, True)`
RECURSIVE SetAllTrue(_, _)
SetAllTrue(c, chosen) ==
    IF chosen = <<>>
    THEN c
    ELSE SetAllTrue(SetAttr(c, Head(chosen).code, PyTrue), Tail(chosen))

\* mutant: the first loop stops one entry short
MultiRecord_DropsLast(c, chosen) ==
    LET c1 == SetAllTrue(c, SubSeq(chosen, 1, Len(chosen) - 1))
    IN  IF \E i \in DOMAIN chosen : chosen[i].pydantic_v1
        THEN SetAttr(c1, "pydanticv1", PyTrue)
        ELSE c1

\* the two loops after the skip test: the chosen keys, then the pydanticv1 flag
MultiRecord(c, chosen) ==
    LET c1 == SetAllTrue(c, chosen)
    IN  IF \E i \in DOMAIN chosen : chosen[i].pydantic_v1
        THEN SetAttr(c1, "pydanticv1", PyTrue)
        ELSE c1

\* MultiselectMenuModel.ask(context) with the hook returning hookRes and, when
\* a prompt is shown, the user answering `answer`, on a Python that runs with
\* assertions stripped iff `optimized`
AskMulti(menu, c, tm, optimized, hookRes, answer) ==
    LET chosen0  == IF menu.before_ask # PyNone THEN hookRes ELSE NoneList
        prompted == chosen0.isNone
        visible  == VisibleEntries(UnknownEntries(menu, c), c)
        pick     == IF tm THEN TerminalMultiPick(visible, answer)
                          ELSE DialogMultiPick(visible, answer)
        chosen1  == IF prompted THEN pick.chosen ELSE chosen0.items
        base     == [hook |-> chosen0.items, hookNone |-> chosen0.isNone,
                     prompted |-> prompted,
                     presented |-> IF prompted THEN visible ELSE <<>>,
                     cancelled |-> prompted /\ answer.isNone,
                     picked |-> IF prompted /\ ~pick.raises THEN answer.items ELSE <<>>]
    IN  IF prompted /\ pick.raises
        THEN base @@ [ctx |-> c, ret |-> DialogError(optimized), chosen |-> <<>>,
                      resolved |-> FALSE]
        ELSE IF prompted /\ pick.returnsNone
        THEN base @@ [ctx |-> c, ret |-> "None", chosen |-> <<>>, resolved |-> FALSE]
        ELSE IF chosen1 = <<SKIP_ENTRY>>
        THEN base @@ [ctx |-> c, ret |-> "context", chosen |-> chosen1, resolved |-> TRUE]
        ELSE base @@ [ctx |-> MultiRecord(c, chosen1), ret |-> "context",
                      chosen |-> chosen1, resolved |-> TRUE]

----------------------------------------------------------------------------
(* after_ask *)

\* the after_ask_fun hooks of the menus above.  "record_db_info" is
\*   def f(ctx, menu): ctx.db_info = "info"; return ctx
AfterAskFun(name, c, menu) ==
    IF name = "record_db_info" THEN SetAttr(c, "db_info", "info") ELSE c

\* BaseMenuModel.after_ask: `return context`
BaseAfterAsk(c) == c

\* mutant: the registered hook is never called
AfterAsk_IgnoresHook(menu, c) == c

\* SingularMenuModel.after_ask; a multi-select menu inherits the base method
AfterAsk(menu, c) ==
    IF menu.kind = "single" /\ menu.after_ask_fun # PyNone
    THEN AfterAskFun(menu.after_ask_fun, c, menu)
    ELSE BaseAfterAsk(c)

\* need_ask / ask of either variant
NeedAsk(menu, c) ==
    IF menu.kind = "single" THEN SingularNeedAsk(menu, c) ELSE MultiNeedAsk(menu, c)

\* get_cli_options of either variant: both read entry.generated_name of
\* every entry before building the options
GetCliOptions(menu) ==
    IF \E i \in 1..Len(menu.entries) : GeneratedName(menu.entries[i]) = "TypeError"
    THEN "TypeError"
    ELSE "options"

----------------------------------------------------------------------------
(* State machine *)

\* the values a keyword argument of BuilderContext(**kwargs) is drawn from
ValuesFor(k) ==
    CASE k = "db"         -> {PyNone, "pg", "none"}
      [] k = "orm"        -> {PyNone, "sqla", "tortoise", "zzz"}
      [] k = "redis"      -> {PyNone, PyTrue, PyFalse}
      [] k = "rmq"        -> {PyNone, PyTrue}
      [] k = "data"       -> {PyNone, "d1"}
      [] k = "pydanticv1" -> {PyTrue}
      [] OTHER            -> {"info"}

AllValues == UNION {ValuesFor(k) : k \in Keys}

\* BuilderContext(**kwargs) for at most MaxSeed keyword arguments
Seeds ==
    UNION {{f \in [S -> AllValues] : \A k \in S : f[k] \in ValuesFor(k)} :
             S \in {T \in SUBSET SeedKeys : Cardinality(T) <= MaxSeed}}

NoCall ==
    [op |-> "none", m |-> 0, pre |-> [k \in {} |-> PyNone], hook |-> <<>>,
     hookNone |-> TRUE, prompted |-> FALSE, presented |-> <<>>,
     cancelled |-> FALSE, picked |-> <<>>, chosen |-> <<>>, resolved |-> FALSE,
     ret |-> "", key |-> "", val |-> ""]

\* the observation of a call of op on menu m in Context c that returned ret
Plain(op, m, c, ret) == [NoCall EXCEPT !.op = op, !.m = m, !.pre = c, !.ret = ret]

\* the observation of an ask whose result record is r
Asked(m, c, r) ==
    [op |-> "ask", m |-> m, pre |-> c, hook |-> r.hook, hookNone |-> r.hookNone,
     prompted |-> r.prompted, presented |-> r.presented, cancelled |-> r.cancelled,
     picked |-> r.picked, chosen |-> r.chosen, resolved |-> r.resolved,
     ret |-> r.ret, key |-> "", val |-> ""]

\* the keys an ask with result r writes, in the order it writes them: the
\* menu's code (single-select) or the codes of the chosen entries
\* (multi-select), then pydanticv1
AskWrites(menu, r) ==
    (IF menu.kind = "single"
     THEN <<menu.code>>
     ELSE [i \in DOMAIN r.chosen |-> r.chosen[i].code]) \o <<"pydanticv1">>

\* the keys the after_ask_fun hooks of the menus write
AfterAskWrites == <<"db_info">>

\* every result ask can have on menu m in Context c
AskResults(m, c, tm) ==
    LET menu == Menus[m]
    IN  IF menu.kind = "single"
        THEN {AskSingular(menu, c, tm, o, h, idx) :
                o \in BOOLEAN,
                h \in SingularHookResults(menu),
                idx \in SingularAnswers(Len(AvailableEntries(menu, c)), tm)}
        ELSE {AskMulti(menu, c, tm, o, h, a) :
                o \in BOOLEAN,
                h \in MultiHookResults(menu),
                a \in MultiAnswers(Len(VisibleEntries(UnknownEntries(menu, c), c)), tm)}

\* no code of a menu or of an entry above is a name of VersionAttrs, so the
\* calls of the menus do the same on every Python version
Init ==
    /\ ctx \in Seeds
    /\ inserted = SelectSeq(KeyList, LAMBDA k : k \in DOMAIN ctx)
    /\ seed = ctx
    /\ terminalMenu \in BOOLEAN
    /\ last = NoCall
    /\ calls = 0
    /\ pos = 1
    /\ phase = "check"
    /\ log = <<>>
    /\ interp = "3.11"

(* Direct calls of the menus' methods, in any order *)

CallNeedAsk(m) ==
    /\ calls < MaxCalls
    /\ last' = Plain("need_ask", m, ctx, IF NeedAsk(Menus[m], ctx) THEN "True" ELSE "False")
    /\ calls' = calls + 1
    /\ UNCHANGED <<ctx, inserted, terminalMenu, seed, pos, phase, log, interp>>

CallAskSingular(m) ==
    /\ calls < MaxCalls
    /\ Menus[m].kind = "single"
    /\ \E r \in AskResults(m, ctx, terminalMenu) :
          /\ ctx' = r.ctx
          /\ inserted' = KeyOrder(inserted, r.ctx, AskWrites(Menus[m], r))
          /\ last' = Asked(m, ctx, r)
    /\ calls' = calls + 1
    /\ UNCHANGED <<terminalMenu, seed, pos, phase, log, interp>>

CallAskMulti(m) ==
    /\ calls < MaxCalls
    /\ Menus[m].kind = "multi"
    /\ \E r \in AskResults(m, ctx, terminalMenu) :
          /\ ctx' = r.ctx
          /\ inserted' = KeyOrder(inserted, r.ctx, AskWrites(Menus[m], r))
          /\ last' = Asked(m, ctx, r)
    /\ calls' = calls + 1
    /\ UNCHANGED <<terminalMenu, seed, pos, phase, log, interp>>

CallAfterAsk(m) ==
    /\ calls < MaxCalls
    /\ ctx' = AfterAsk(Menus[m], ctx)
    /\ inserted' = KeyOrder(inserted, ctx', AfterAskWrites)
    /\ last' = Plain("after_ask", m, ctx, "context")
    /\ calls' = calls + 1
    /\ UNCHANGED <<terminalMenu, seed, pos, phase, log, interp>>

Next ==
    \E m \in MenuIds :
        \/ CallNeedAsk(m)
        \/ CallAskSingular(m)
        \/ CallAskMulti(m)
        \/ CallAfterAsk(m)

Spec == Init /\ [][Next]_vars

(* Accesses to a BuilderContext and to the entries' flag names *)

\* the observation of an access op to key (writing val) in Context c
Access(op, key, val, c, ret) ==
    [NoCall EXCEPT !.op = op, !.key = key, !.val = val, !.pre = c, !.ret = ret]

\* BuilderContext() with no keyword arguments
AccessInit ==
    /\ ctx = [k \in {} |-> PyNone]
    /\ inserted = <<>>
    /\ seed = ctx
    /\ terminalMenu \in BOOLEAN
    /\ last = NoCall
    /\ calls = 0
    /\ pos = 1
    /\ phase = "check"
    /\ log = <<>>
    /\ interp \in Interpreters

CallGetAttr(k) ==
    /\ calls < MaxAccess
    /\ last' = Access("getattr", k, "", ctx, GetAttr(ctx, k))
    /\ calls' = calls + 1
    /\ UNCHANGED <<ctx, inserted, terminalMenu, seed, pos, phase, log, interp>>

CallDictGet(k) ==
    /\ calls < MaxAccess
    /\ last' = Access("dict_get", k, "", ctx, DictGet(ctx, k))
    /\ calls' = calls + 1
    /\ UNCHANGED <<ctx, inserted, terminalMenu, seed, pos, phase, log, interp>>

CallSetAttr(k, v) ==
    /\ calls < MaxAccess
    /\ ctx' = SetAttr(ctx, k, v)
    /\ inserted' = KeyOrder(inserted, ctx', <<k>>)
    /\ last' = Access("setattr", k, v, ctx, PyNone)
    /\ calls' = calls + 1
    /\ UNCHANGED <<terminalMenu, seed, pos, phase, log, interp>>

CallDictSet(k, v) ==
    /\ calls < MaxAccess
    /\ ctx' = DictSet(ctx, k, v)
    /\ inserted' = KeyOrder(inserted, ctx', <<k>>)
    /\ last' = Access("dict_set", k, v, ctx, PyNone)
    /\ calls' = calls + 1
    /\ UNCHANGED <<terminalMenu, seed, pos, phase, log, interp>>

\* context.pop(k): KeyError when the key is missing
CallPop(k) ==
    /\ calls < MaxAccess
    /\ ctx' = DictRemove(ctx, k)
    /\ inserted' = KeyOrder(inserted, ctx', <<>>)
    /\ last' = Access("pop", k, "", ctx, DictItem(ctx, k))
    /\ calls' = calls + 1
    /\ UNCHANGED <<terminalMenu, seed, pos, phase, log, interp>>

\* del context[k]: KeyError when the key is missing
CallDelItem(k) ==
    /\ calls < MaxAccess
    /\ ctx' = DictRemove(ctx, k)
    /\ inserted' = KeyOrder(inserted, ctx', <<>>)
    /\ last' = Access("delitem", k, "", ctx,
                      IF k \in DOMAIN ctx THEN PyNone ELSE "KeyError")
    /\ calls' = calls + 1
    /\ UNCHANGED <<terminalMenu, seed, pos, phase, log, interp>>

\* context.popitem(): MutableMapping.popitem takes `next(iter(self))`, the
\* first key of the mapping, and raises KeyError on an empty mapping
CallPopItem ==
    /\ calls < MaxAccess
    /\ IF inserted = <<>>
       THEN /\ ctx' = ctx
            /\ inserted' = inserted
            /\ last' = Access("popitem", "", "", ctx, "KeyError")
       ELSE /\ ctx' = DictRemove(ctx, Head(inserted))
            /\ inserted' = KeyOrder(inserted, ctx', <<>>)
            /\ last' = Access("popitem", Head(inserted), "", ctx,
                              ctx[Head(inserted)])
    /\ calls' = calls + 1
    /\ UNCHANGED <<terminalMenu, seed, pos, phase, log, interp>>

\* context.clear()
CallClear ==
    /\ calls < MaxAccess
    /\ ctx' = Clear(ctx)
    /\ inserted' = KeyOrder(inserted, ctx', <<>>)
    /\ last' = Access("clear", "", "", ctx, PyNone)
    /\ calls' = calls + 1
    /\ UNCHANGED <<terminalMenu, seed, pos, phase, log, interp>>

\* context.copy(): returns a new context and writes the key "data" of the
\* receiver
CallCopy ==
    /\ calls < MaxAccess
    /\ ctx' = Copy(ctx)
    /\ inserted' = KeyOrder(inserted, ctx', <<"data">>)
    /\ last' = Access("copy", "", "", ctx, "context")
    /\ calls' = calls + 1
    /\ UNCHANGED <<terminalMenu, seed, pos, phase, log, interp>>

\* context |= {k: v}
CallIor(k, v) ==
    /\ calls < MaxAccess
    /\ ctx' = Ior(ctx, k, v)
    /\ inserted' = KeyOrder(inserted, ctx', <<k, "data">>)
    /\ last' = Access("ior", k, v, ctx, "context")
    /\ calls' = calls + 1
    /\ UNCHANGED <<terminalMenu, seed, pos, phase, log, interp>>

CallGeneratedName(m, i) ==
    /\ calls < MaxAccess
    /\ last' = [Access("generated_name", Menus[m].entries[i].code, "", ctx,
                       GeneratedName(Menus[m].entries[i])) EXCEPT !.m = m]
    /\ calls' = calls + 1
    /\ UNCHANGED <<ctx, inserted, terminalMenu, seed, pos, phase, log, interp>>

CallGetCliOptions(m) ==
    /\ calls < MaxAccess
    /\ last' = [Access("get_cli_options", "", "", ctx, GetCliOptions(Menus[m]))
                  EXCEPT !.m = m]
    /\ calls' = calls + 1
    /\ UNCHANGED <<ctx, inserted, terminalMenu, seed, pos, phase, log, interp>>

AccessNext ==
    \/ \E k \in AccessKeys : CallGetAttr(k)
    \/ \E k \in AccessKeys : CallDictGet(k)
    \/ \E k \in AccessKeys : \E v \in ValuesFor(k) : CallSetAttr(k, v)
    \/ \E k \in AccessKeys : \E v \in ValuesFor(k) : CallDictSet(k, v)
    \/ \E k \in AccessKeys : CallPop(k)
    \/ \E k \in AccessKeys : CallDelItem(k)
    \/ CallPopItem
    \/ CallClear
    \/ CallCopy
    \/ \E k \in AccessKeys : \E v \in ValuesFor(k) : CallIor(k, v)
    \/ \E m \in MenuIds : \E i \in 1..Len(Menus[m].entries) : CallGeneratedName(m, i)
    \/ \E m \in MenuIds : CallGetCliOptions(m)

AccessSpec == AccessInit /\ [][AccessNext]_vars

(* The wizard driver: one pass over Menus in declared order *)

Visit(m, event, chosen, ret) == [m |-> m, event |-> event, chosen |-> chosen, ret |-> ret]

\* `if not model.needsInput(context): continue`
DriverSkip ==
    /\ phase = "check"
    /\ pos <= Len(Menus)
    /\ ~NeedAsk(Menus[pos], ctx)
    /\ last' = Plain("need_ask", pos, ctx, "False")
    /\ log' = Append(log, Visit(pos, "skip", <<>>, "False"))
    /\ pos' = pos + 1
    /\ UNCHANGED <<ctx, inserted, terminalMenu, calls, seed, phase, interp>>

\* `result = model.collectChoice(context); if result is None: abort(run)`;
\* an exception raised by the call ends the pass
DriverAsk ==
    /\ phase = "check"
    /\ pos <= Len(Menus)
    /\ NeedAsk(Menus[pos], ctx)
    /\ \E r \in AskResults(pos, ctx, terminalMenu) :
          /\ ctx' = r.ctx
          /\ inserted' = KeyOrder(inserted, r.ctx, AskWrites(Menus[pos], r))
          /\ last' = Asked(pos, ctx, r)
          /\ log' = Append(log, Visit(pos, "ask", r.chosen, r.ret))
          /\ phase' = CASE r.ret = "None"          -> "aborted"
                         [] r.ret \in DialogErrors -> "raised"
                         [] OTHER                   -> "asked"
    /\ UNCHANGED <<terminalMenu, calls, seed, pos, interp>>

\* `context = model.postProcess(result)`
DriverAfterAsk ==
    /\ phase = "asked"
    /\ ctx' = AfterAsk(Menus[pos], ctx)
    /\ inserted' = KeyOrder(inserted, ctx', AfterAskWrites)
    /\ last' = Plain("after_ask", pos, ctx, "context")
    /\ log' = Append(log, Visit(pos, "after_ask", <<>>, "context"))
    /\ pos' = pos + 1
    /\ phase' = "check"
    /\ UNCHANGED <<terminalMenu, calls, seed, interp>>

\* the loop is exhausted: the CLI option surfaces of all menus are
\* aggregated, which calls get_cli_options of every menu and ends the run
\* when one of them raises; then `return context`
DriverFinish ==
    /\ phase = "check"
    /\ pos > Len(Menus)
    /\ phase' = IF \E m \in MenuIds : GetCliOptions(Menus[m]) = "TypeError"
                THEN "raised"
                ELSE "done"
    /\ UNCHANGED <<ctx, inserted, terminalMenu, last, calls, seed, pos, log, interp>>

DriverNext == DriverSkip \/ DriverAsk \/ DriverAfterAsk \/ DriverFinish

DriverSpec == Init /\ [][DriverNext]_vars

----------------------------------------------------------------------------
(* Properties *)

LastIsAsk(kind) == last.op = "ask" /\ Menus[last.m].kind = kind

\* the entries of a menu whose code equals the value v
Matching(menu, v) == {i \in 1..Len(menu.entries) : menu.entries[i].code = v}

\* position of entry e in the sequence s (entries of a menu are distinct)
PosIn(s, e) == CHOOSE i \in 1..Len(s) : s[i] = e

\* C1: when a single-select ask resolves the chosen entry to the skip
\* sentinel, it returns the Context itself (not None), unchanged, and the
\* menu's key is still absent.
C1_SkipReturnsContext ==
    (LastIsAsk("single") /\ last.resolved /\ IsSkip(last.chosen[1]))
        => /\ last.ret = "context"
           /\ ctx = last.pre
           /\ (Menus[last.m].code \notin DOMAIN last.pre
                 => Menus[last.m].code \notin DOMAIN ctx)

\* C2: when the user cancels the prompt of a multi-select menu, under either
\* backend, ask returns None and never a Context.
C2_MultiCancelReturnsNone ==
    (LastIsAsk("multi") /\ last.prompted /\ last.cancelled) => last.ret = "None"

\* C3: when the user cancels the prompt of a single-select menu, under either
\* backend, ask returns None and the Context equals its value before the call.
C3_SingularCancelReturnsNone ==
    (LastIsAsk("single") /\ last.prompted /\ last.cancelled)
        => last.ret = "None" /\ ctx = last.pre

\* C3 witness: a single-select prompt cancelled in the fallback dialog, on a
\* Context that already holds keys
C3_Witness ==
    /\ LastIsAsk("single") /\ last.prompted /\ last.cancelled
    /\ ~terminalMenu
    /\ DOMAIN last.pre # {}

\* the entries chosen by the asks the driver made on menu m
ChosenBy(m) ==
    UNION {Range(log[i].chosen) :
             i \in {j \in DOMAIN log : log[j].m = m /\ log[j].event = "ask"}}

\* the loop of the driver is exhausted: every menu was visited and no ask
\* returned None or raised
PassCompleted == pos > Len(Menus)

\* C4 as claimed: after a pass that completes without abort, need_ask is
\* false for every menu, single-select or multi-select.
C4_AllAnswered ==
    PassCompleted => \A m \in MenuIds : ~NeedAsk(Menus[m], ctx)

\* C4 as amended: after a pass that completes without abort, need_ask of a
\* single-select menu is false unless the menu's code names an attribute of
\* the Context object that is None, for which it is true whatever was
\* recorded; need_ask of a multi-select menu is true exactly when some entry
\* either names such an attribute, or names no attribute of the object, was
\* not constructed with a non-None value and was not among the chosen
\* entries.
C4_SingleAnsweredMultiOnlyIfAllSet ==
    PassCompleted =>
        \A m \in MenuIds :
            IF Menus[m].kind = "single"
            THEN NeedAsk(Menus[m], ctx) <=> Menus[m].code \in NoneAttrs
            ELSE NeedAsk(Menus[m], ctx) <=>
                   \E e \in Range(Menus[m].entries) :
                       \/ e.code \in NoneAttrs
                       \/ /\ e.code \notin ObjectAttrs
                          /\ ~(e.code \in DOMAIN seed /\ seed[e.code] # PyNone)
                          /\ e \notin ChosenBy(m)

\* C4 witness: a completed pass in which a multi-select menu was asked, the
\* user confirmed a proper subset and need_ask is still true for it, a
\* multi-select menu whose entry names a method was never asked, and a
\* single-select menu was asked and recorded its choice
C4_Witness ==
    /\ PassCompleted
    /\ \E i \in DOMAIN log :
          /\ log[i].event = "ask" /\ Menus[log[i].m].kind = "multi"
          /\ log[i].chosen = <<Redis>>
          /\ NeedAsk(Menus[log[i].m], ctx)
    /\ \E i \in DOMAIN log :
          /\ log[i].event = "skip" /\ Menus[log[i].m].kind = "multi"
          /\ \E e \in Range(Menus[log[i].m].entries) : e.code \notin DOMAIN ctx
    /\ \E i \in DOMAIN log :
          /\ log[i].event = "ask" /\ Menus[log[i].m].kind = "single"
          /\ ~NeedAsk(Menus[log[i].m], ctx)

\* C5: need_ask of a single-select menu returns true iff the menu's key is
\* absent from the Context; whenever the key is present, whatever its
\* value, it returns false.
C5_TrueIffAbsent ==
    (last.op = "need_ask" /\ Menus[last.m].kind = "single")
        => (last.ret = "True" <=> Menus[last.m].code \notin DOMAIN last.pre)

\* C6: when a single-select ask resolves an entry other than the skip
\* sentinel, it returns the Context with context[code] equal to that entry's
\* code, and need_ask of the same menu is then false.
C6_ChoiceRecorded ==
    (LastIsAsk("single") /\ last.resolved /\ ~IsSkip(last.chosen[1]))
        => /\ last.ret = "context"
           /\ Menus[last.m].code \in DOMAIN ctx
           /\ ctx[Menus[last.m].code] = last.chosen[1].code
           /\ ~SingularNeedAsk(Menus[last.m], ctx)

\* C7: whenever the before-ask hook returns an entry, that entry is the
\* chosen entry and no prompt is shown; the value the Context carries is
\* consulted only when the hook gave no entry.
C7_HookEntryWins ==
    (LastIsAsk("single") /\ ~last.hookNone)
        => last.chosen = last.hook /\ ~last.prompted

\* C8: a value carried for a single-select menu's code that matches no entry
\* of the menu is reported as an error: it is neither ignored nor followed by
\* a prompt.  (Stated for the calls in which no hook supplies an entry, where
\* the value is all that ask has to go by.)
C8_UnknownValueIsError ==
    (/\ LastIsAsk("single")
     /\ last.hookNone
     /\ Truthy(DictGet(last.pre, Menus[last.m].code))
     /\ Matching(Menus[last.m], DictGet(last.pre, Menus[last.m].code)) = {})
        => last.ret = "error" /\ ~last.prompted

\* the entries of the last asked menu that the Context before the call names
\* by its value for the menu's code and that are hidden in that Context
HiddenSeeded ==
    LET menu == Menus[last.m]
        v    == DictGet(last.pre, menu.code)
    IN  {i \in Matching(menu, v) : Truthy(v) /\ ~IsVisible(menu.entries[i], last.pre)}

\* C9: when the Context carries the code of an entry that is hidden in that
\* Context, a single-select ask selects that entry without prompting and
\* returns the Context with the menu's key holding the entry's code.
C9_HiddenSeedSelected ==
    LastIsAsk("single") =>
        \A i \in HiddenSeeded :
            /\ ~last.prompted
            /\ last.chosen = <<Menus[last.m].entries[i]>>
            /\ last.ret = "context"
            /\ DictGet(ctx, Menus[last.m].code) = Menus[last.m].entries[i].code

\* C9 witness: the hook proposed another entry, and the hidden entry the
\* Context names was selected
C9_Witness ==
    /\ LastIsAsk("single")
    /\ HiddenSeeded # {}
    /\ ~last.hookNone
    /\ last.hook # last.chosen

\* C10: the choices handed to the presentation adapter, for either menu
\* variant and either backend, contain no entry hidden in the current
\* Context, and keep the relative order of the menu's entries.
C10_PresentedVisibleInOrder ==
    (last.op = "ask" /\ last.prompted) =>
        LET entries == Menus[last.m].entries
            shown   == last.presented
        IN  /\ \A i \in DOMAIN shown :
                  /\ shown[i] \in Range(entries)
                  /\ IsVisible(shown[i], last.pre)
            /\ \A i, j \in DOMAIN shown :
                  i < j => PosIn(entries, shown[i]) < PosIn(entries, shown[j])

\* C10 witness: a prompt that showed two entries and left out a hidden one
\* declared between them
C10_Witness ==
    /\ last.op = "ask" /\ last.prompted
    /\ Len(last.presented) = 2
    /\ \E i \in 1..Len(Menus[last.m].entries) :
          /\ ~IsVisible(Menus[last.m].entries[i], last.pre)
          /\ PosIn(Menus[last.m].entries, last.presented[1]) < i
          /\ i < PosIn(Menus[last.m].entries, last.presented[2])

\* context.pydanticv1 is True
LegacyFlag(c) == "pydanticv1" \in DOMAIN c /\ c["pydanticv1"] = PyTrue

\* C11: once an ask of a single- or multi-select menu has chosen an entry
\* with pydantic_v1 set, context.pydanticv1 is True, and no later call ever
\* clears it or sets it to another value.
C11_LegacyFlagSticky ==
    /\ []((last.op = "ask" /\ last.resolved
             /\ \E i \in DOMAIN last.chosen : last.chosen[i].pydantic_v1)
            => LegacyFlag(ctx))
    /\ [][LegacyFlag(ctx) => LegacyFlag(ctx')]_vars

\* C11 witness: the flag was set by an earlier ask (the Context was not
\* constructed with it) and the last ask chose an entry without pydantic_v1
C11_Witness ==
    /\ last.op = "ask" /\ last.resolved /\ last.ret = "context"
    /\ last.chosen # <<>>
    /\ \A i \in DOMAIN last.chosen : ~last.chosen[i].pydantic_v1
    /\ last.pre # ctx
    /\ "pydanticv1" \notin DOMAIN seed
    /\ LegacyFlag(last.pre) /\ LegacyFlag(ctx)

\* C12: when a multi-select ask resolves chosen entries other than the skip
\* sentinel, on return context[e.code] is True for every chosen entry e, and
\* the key of every entry of the menu that was not chosen is as before the
\* call: absent if it was absent, with the same value otherwise.
C12_ChosenTrueOthersUntouched ==
    (LastIsAsk("multi") /\ last.resolved /\ last.chosen # <<SKIP_ENTRY>>)
        => /\ last.ret = "context"
           /\ \A i \in DOMAIN last.chosen :
                 /\ last.chosen[i].code \in DOMAIN ctx
                 /\ ctx[last.chosen[i].code] = PyTrue
           /\ \A e \in Range(Menus[last.m].entries) \ Range(last.chosen) :
                 /\ e.code \in DOMAIN ctx <=> e.code \in DOMAIN last.pre
                 /\ e.code \in DOMAIN ctx => ctx[e.code] = last.pre[e.code]

\* C12 witness: a proper, non-empty subset confirmed at the prompt, with the
\* key of an entry that was not chosen absent before and after
C12_Witness ==
    /\ LastIsAsk("multi") /\ last.prompted /\ last.resolved
    /\ last.chosen # <<SKIP_ENTRY>> /\ last.chosen # <<>>
    /\ \E e \in Range(Menus[last.m].entries) \ Range(last.chosen) :
          e.code \notin DOMAIN ctx

\* C13 as claimed: for a key that was never set, reading it as an attribute
\* raises AttributeError, reading it with context.dict().get(key) returns
\* None without raising, and neither read changes the Context.
C13_UnsetKeyReads ==
    /\ (last.op = "getattr" /\ last.key \notin DOMAIN last.pre)
          => last.ret = "AttributeError" /\ ctx = last.pre
    /\ (last.op = "dict_get" /\ last.key \notin DOMAIN last.pre)
          => last.ret = PyNone /\ ctx = last.pre

\* C13 as amended: for a key that was never set and that normal attribute
\* lookup does not find on the BuilderContext object, reading it as an
\* attribute raises AttributeError; for a name the lookup finds ("data",
\* "keys", "__hash__", and "__getstate__" from Python 3.11) the read returns
\* the object's own attribute, which is None for "__hash__", and does not
\* raise.  context.dict().get(key) returns None for every unset key, and
\* neither read changes the Context.
C13_UnsetKeyReadsUnlessObjectAttr ==
    /\ (last.op = "getattr" /\ last.key \notin DOMAIN last.pre)
          => /\ last.ret = IF NormalLookup(last.key, interp) = "NotFound"
                           THEN "AttributeError"
                           ELSE NormalLookup(last.key, interp)
             /\ ctx = last.pre
    /\ (last.op = "dict_get" /\ last.key \notin DOMAIN last.pre)
          => last.ret = PyNone /\ ctx = last.pre

\* C13 witness: an attribute read of an unset key raised, on a Context that
\* holds a key whose name the object has as an attribute
C13_Witness ==
    /\ last.op = "getattr"
    /\ last.key \notin DOMAIN last.pre
    /\ \E k \in DOMAIN last.pre : NormalLookup(k, interp) # "NotFound"
    /\ last.ret = "AttributeError"

\* C14 as claimed: for every key k, 'data' included, and every value v, after
\* setting attribute k to v both context.k and context.dict()[k] are v, and
\* after context.dict()[k] = v the attribute context.k is v.
C14_SameStore ==
    /\ last.op = "setattr"
          => GetAttr(ctx, last.key) = last.val /\ DictItem(ctx, last.key) = last.val
    /\ last.op = "dict_set" => GetAttr(ctx, last.key) = last.val

\* C14 as amended: for every key k and value v, after setting attribute k
\* to v, or context.dict()[k] = v, the mapping holds v under k; the attribute
\* context.k is v when normal attribute lookup does not find k on the
\* object, and is the object's own attribute (the backing mapping for
\* "data", a method for "keys", None for "__hash__") when it does.
C14_SameStoreUnlessObjectAttr ==
    (last.op \in {"setattr", "dict_set"})
        => /\ DictItem(ctx, last.key) = last.val
           /\ GetAttr(ctx, last.key) =
                IF NormalLookup(last.key, interp) = "NotFound"
                THEN last.val
                ELSE NormalLookup(last.key, interp)

\* C14 witness: an attribute write that replaced another value of a key
\* whose name the object does not have, in a Context that also holds a key
\* whose name it has
C14_Witness ==
    /\ last.op = "setattr"
    /\ NormalLookup(last.key, interp) = "NotFound"
    /\ last.key \in DOMAIN last.pre
    /\ last.pre[last.key] # last.val
    /\ \E k \in DOMAIN last.pre : NormalLookup(k, interp) # "NotFound"

\* C15: across any sequence of need_ask, ask and after_ask calls, the set of
\* keys of the Context never loses a key.
C15_KeysNeverRemoved == [][DOMAIN ctx \subseteq DOMAIN ctx']_vars

\* C15 witness: an ask added a key to a Context that already held others
C15_Witness ==
    /\ last.op = "ask"
    /\ DOMAIN last.pre # {}
    /\ DOMAIN last.pre \subseteq DOMAIN ctx
    /\ DOMAIN last.pre # DOMAIN ctx

\* C16: reading generated_name of any entry returns cli_name when it is
\* present and code otherwise, and never fails; get_cli_options, which reads
\* it for every entry, does not fail either.
C16_GeneratedNameNeverFails ==
    /\ last.op = "generated_name"
          => \E i \in 1..Len(Menus[last.m].entries) :
                LET entry == Menus[last.m].entries[i]
                IN  /\ entry.code = last.key
                    /\ last.ret = IF entry.cli_name # PyNone THEN entry.cli_name
                                                             ELSE entry.code
    /\ last.op = "get_cli_options" => last.ret # "TypeError"

\* C17: after_ask of a single-select menu returns after_ask_fun(context,
\* self) when that hook is set, and otherwise the Context it was given with
\* no key added, changed or removed; after_ask of a multi-select menu always
\* returns its argument unchanged.
C17_AfterAskHookOrIdentity ==
    last.op = "after_ask" =>
        LET menu == Menus[last.m]
        IN  /\ last.ret = "context"
            /\ IF menu.kind = "single" /\ menu.after_ask_fun # PyNone
               THEN ctx = AfterAskFun(menu.after_ask_fun, last.pre, menu)
               ELSE ctx = last.pre

\* C17 witness: the hook of a single-select menu ran and changed the Context
C17_Witness ==
    /\ last.op = "after_ask"
    /\ Menus[last.m].kind = "single" /\ Menus[last.m].after_ask_fun # PyNone
    /\ DOMAIN last.pre # {}
    /\ ctx # last.pre

\* the positions of the log that record event ev of menu m
Events(m, ev) == {i \in DOMAIN log : log[i].m = m /\ log[i].event = ev}

C19_SkipByIdentity ==
    /\ (LastIsAsk("single") /\ last.prompted /\ last.picked # <<>>)
          => /\ last.ret = "context"
             /\ DictGet(ctx, Menus[last.m].code) = last.presented[last.picked[1]].code
    /\ (LastIsAsk("multi") /\ last.prompted /\ last.picked # <<>>)
          => /\ last.ret = "context"
             /\ \A i \in DOMAIN last.picked :
                   DictGet(ctx, last.presented[last.picked[i]].code) = PyTrue

\* the case of C20: a single-select ask on a menu that needs input, whose
\* hook (if any) returned None, whose key carries no value and whose entries
\* are all hidden
EmptyChoiceCase ==
    /\ LastIsAsk("single")
    /\ last.hookNone
    /\ SingularNeedAsk(Menus[last.m], last.pre)
    /\ ~Truthy(DictGet(last.pre, Menus[last.m].code))
    /\ \A e \in Range(Menus[last.m].entries) : ~IsVisible(e, last.pre)

\* C20 as claimed: when a single-select menu needs input, the hook (if any)
\* returns None and every entry is hidden, ask still hands the presentation
\* adapter an empty list of choices, and the call neither raises an error
\* nor resolves an entry of the menu by itself.
C20_EmptyChoiceListPresented ==
    EmptyChoiceCase
        => /\ last.prompted
           /\ last.presented = <<>>
           /\ last.ret \notin {"error"} \cup DialogErrors
           /\ \A i \in DOMAIN last.chosen :
                 last.chosen[i] \notin Range(Menus[last.m].entries)

\* C20 as amended: in that case ask has no guard of its own and hands the
\* presentation adapter an empty list of choices; it resolves no entry of
\* the menu and leaves the Context unchanged.  With the radiolist dialog the
\* adapter cannot be built over no choice, and the call ends in the
\* exception the dialog raises.
C20_EmptyChoiceListHandedToAdapter ==
    EmptyChoiceCase
        => /\ last.prompted
           /\ last.presented = <<>>
           /\ ~last.resolved /\ last.chosen = <<>>
           /\ ctx = last.pre
           /\ ~terminalMenu => last.ret \in DialogErrors

\* C20 witness: a menu with a registered hook that returned None, all of
\* whose entries are hidden, was prompted through the radiolist dialog, which
\* raised on a Python that runs with assertions stripped
C20_Witness ==
    /\ EmptyChoiceCase
    /\ Menus[last.m].before_ask # PyNone
    /\ last.prompted
    /\ ~terminalMenu
    /\ last.ret = "IndexError"

\* the keys of the entries of the multi-select menus
MultiEntryKeys ==
    UNION {{e.code : e \in Range(Menus[m].entries)} :
             m \in {n \in MenuIds : Menus[n].kind = "multi"}}

\* C21: a multi-select ask removes no key and every key it adds or changes
\* holds True afterwards; when it prompts, the entries offered are exactly
\* the visible entries whose key is absent or falsy (an explicit False
\* included), so an entry that is already True is not offered; and an entry
\* key that is True stays True from one call to the next.
C21_MultiWritesOnlyTrue ==
    /\ [](LastIsAsk("multi") =>
            /\ DOMAIN last.pre \subseteq DOMAIN ctx
            /\ \A k \in DOMAIN ctx :
                  (k \notin DOMAIN last.pre \/ ctx[k] # last.pre[k])
                      => ctx[k] = PyTrue
            /\ last.prompted =>
                  \A e \in Range(Menus[last.m].entries) :
                      e \in Range(last.presented)
                          <=> (~Truthy(DictGet(last.pre, e.code))
                                 /\ IsVisible(e, last.pre)))
    /\ [][\A k \in MultiEntryKeys :
            DictGet(ctx, k) = PyTrue => DictGet(ctx', k) = PyTrue]_vars

\* C21 witness: with one entry already True and another explicitly False,
\* only the latter was offered, was ticked and became True
C21_Witness ==
    /\ LastIsAsk("multi")
    /\ DictGet(last.pre, "rmq") = PyTrue
    /\ DictGet(last.pre, "redis") = PyFalse
    /\ last.prompted
    /\ last.presented = <<Redis>>
    /\ last.picked = <<1>>
    /\ DictGet(ctx, "redis") = PyTrue
    /\ DictGet(ctx, "rmq") = PyTrue

\* C22: a single-select ask (whose hook does not write) adds, changes or
\* removes no key other than the menu's own code and pydanticv1, whichever
\* path the call takes.
C22_SingularFrame ==
    LastIsAsk("single") =>
        \A k \in (DOMAIN ctx \cup DOMAIN last.pre)
                    \ {Menus[last.m].code, "pydanticv1"} :
            /\ k \in DOMAIN last.pre
            /\ k \in DOMAIN ctx
            /\ ctx[k] = last.pre[k]

\* C22 witness: an ask that wrote both its own key and the pydanticv1 flag
\* in a Context that held another key
C22_Witness ==
    /\ LastIsAsk("single")
    /\ last.ret = "context"
    /\ DOMAIN last.pre \ {Menus[last.m].code, "pydanticv1"} # {}
    /\ DictGet(ctx, Menus[last.m].code) # DictGet(last.pre, Menus[last.m].code)
    /\ LegacyFlag(ctx) /\ ~LegacyFlag(last.pre)

\* the recorded order lists every key of the Context exactly once
InsertedIsOrderOfCtx ==
    /\ Range(inserted) = DOMAIN ctx
    /\ Len(inserted) = Cardinality(DOMAIN ctx)

====
